---- MODULE Spec2Model ----
(***************************************************************************)
(* RiskOps scoring engine (risk_engine.py) as a state machine.             *)
(*                                                                         *)
(* The engine is a library of pure functions; the state of the model is    *)
(* the frame of the call in progress: which entry point was called, its    *)
(* arguments, the unrounded local values it computed, the helper functions *)
(* it invoked, and the value it returned.                                  *)
(*                                                                         *)
(* Numbers.  Python floats are modelled as exact decimal fixed-point       *)
(* integers, each quantity in the unit that represents it exactly:         *)
(*   area_ratio                 1/100                                      *)
(*   confidence                 1/100000                                   *)
(*   production_value_per_hour  1 (whole euros)                            *)
(*   area / floor / proximity / zone / damage factors   1/10               *)
(*   sub-scores (physical ... model_conf)   1/ScoreUnit   = 1e-5           *)
(*   weights                    1/WeightUnit  = 1/20                       *)
(*   contributions, global_score            1/1000                         *)
(*   mitigated_score            1/MitUnit     = 1/(2*10^7)                 *)
(*   reported values and scores 1/100, reported costs in cents,            *)
(*   risk_reduction_pct in tenths of a percent.                            *)
(* A computed float lies within rounding error of the exact value, on      *)
(* either side of it.  Wherever the code rounds or compares a computed     *)
(* float, the outcome is therefore the exact one, except when the exact    *)
(* value sits on a rounding tie or on a comparison threshold: there the    *)
(* float may fall on either side, and the model takes every outcome.  The  *)
(* operators of a call are set-valued for that reason.  Products that      *)
(* exceed the 32-bit integers of the model checker are computed as         *)
(* sequences of base-10^4 limbs.  Optional fields are <<>> (None) or <<v>>.*)
(***************************************************************************)
EXTENDS Integers, Sequences, FiniteSets, TLC

VARIABLES fn, args, locals, ret, calls, history_store, btn_run,
          main_tabs

vars == <<fn, args, locals, ret, calls, history_store, btn_run, main_tabs>>

\* the state the dashboard keeps in the browser: the data of the
\* dcc.Store "history-store", the n_clicks of the button "btn-run" and
\* the value of the dcc.Tabs "main-tabs"
browser == <<history_store, btn_run, main_tabs>>

----------------------------------------------------------------------------
(* Units *)

ScoreUnit == 10^5
WeightUnit == 4 * 5
MitUnit == 2 * 10^7
LimbBase == 10^4

----------------------------------------------------------------------------
(* Python built-ins used by the engine *)

\* variant: truncation instead of rounding
RoundChoices_floor(n, d) == {n \div d}

\* round() of the float computed for n / d (d > 0), as a multiple of the
\* rounding step: the nearest one, either neighbour on an exact decimal tie
RoundChoices(n, d) ==
    LET q == n \div d
        r == n % d
    IN  IF 2 * r < d THEN {q}
        ELSE IF 2 * r > d THEN {q + 1}
        ELSE {q, q + 1}

Min(a, b) == IF b < a THEN b ELSE a
Max(a, b) == IF b > a THEN b ELSE a

UpperAlphabet == "ABCDEFGHIJKLMNOPQRSTUVWXYZ"
LowerAlphabet == "abcdefghijklmnopqrstuvwxyz"

\* the lower-case letter of every upper-case letter
LowerOf ==
    LET i(c) == CHOOSE j \in 1..26 : SubSeq(UpperAlphabet, j, j) = c
    IN  [c \in {SubSeq(UpperAlphabet, j, j) : j \in 1..26} |->
            SubSeq(LowerAlphabet, i(c), i(c))]

LowerChar(c) == IF c \in DOMAIN LowerOf THEN LowerOf[c] ELSE c

RECURSIVE Lower(_)
\* str.lower()
Lower(s) ==
    IF Len(s) = 0 THEN ""
    ELSE LowerChar(SubSeq(s, 1, 1)) \o Lower(SubSeq(s, 2, Len(s)))

\* sub in s
Contains(sub, s) ==
    \E i \in 1..(Len(s) - Len(sub) + 1) : SubSeq(s, i, i + Len(sub) - 1) = sub

\* (opt or default) for an Optional[str]: None and "" are both falsy
OrStr(opt, default) ==
    IF opt = <<>> THEN default
    ELSE IF opt[1] = "" THEN default ELSE opt[1]

\* variant: an absent number counts as 1.0 (100 hundredths)
OrNum_absent_as_one(opt) == IF opt = <<>> THEN 100 ELSE opt[1]

\* (opt or 0) for an Optional[float]: None and 0 are both falsy
OrNum(opt) == IF opt = <<>> THEN 0 ELSE opt[1]

----------------------------------------------------------------------------
(* Naturals wider than 32 bits: little-endian sequences of base-10^4 limbs *)

RECURSIVE BigFromInt(_)
BigFromInt(n) ==
    IF n < LimbBase THEN <<n>>
    ELSE <<n % LimbBase>> \o BigFromInt(n \div LimbBase)

RECURSIVE BigMulLimb(_, _, _)
\* a * k + carry, for 0 <= k <= 2 * 10^5
BigMulLimb(a, k, carry) ==
    IF a = <<>> THEN (IF carry = 0 THEN <<>> ELSE BigFromInt(carry))
    ELSE LET t == Head(a) * k + carry
         IN  <<t % LimbBase>> \o BigMulLimb(Tail(a), k, t \div LimbBase)

RECURSIVE BigAdd(_, _, _)
BigAdd(a, b, carry) ==
    IF a = <<>> /\ b = <<>> THEN (IF carry = 0 THEN <<>> ELSE <<carry>>)
    ELSE LET x == IF a = <<>> THEN 0 ELSE Head(a)
             y == IF b = <<>> THEN 0 ELSE Head(b)
             t == x + y + carry
         IN  <<t % LimbBase>>
             \o BigAdd(IF a = <<>> THEN <<>> ELSE Tail(a),
                       IF b = <<>> THEN <<>> ELSE Tail(b), t \div LimbBase)

RECURSIVE BigMul(_, _)
BigMul(a, b) ==
    IF b = <<>> THEN <<>>
    ELSE BigAdd(BigMulLimb(a, Head(b), 0), <<0>> \o BigMul(a, Tail(b)), 0)

RECURSIVE BigDivInt(_, _, _)
\* short division of a by d (0 < d <= 2 * 10^5), most significant limb first;
\* rem is the running remainder.  Result: quotient limbs and final remainder.
BigDivInt(a, d, rem) ==
    IF a = <<>> THEN [q |-> <<>>, r |-> rem]
    ELSE LET n == Len(a)
             t == rem * LimbBase + a[n]
             rest == BigDivInt(SubSeq(a, 1, n - 1), d, t % d)
         IN  [q |-> rest.q \o <<t \div d>>, r |-> rest.r]

RECURSIVE BigToInt(_)
BigToInt(a) ==
    IF a = <<>> THEN 0 ELSE Head(a) + LimbBase * BigToInt(Tail(a))

RECURSIVE BigProduct(_)
BigProduct(ds) ==
    IF ds = <<>> THEN <<1>> ELSE BigMul(BigProduct(Tail(ds)), BigFromInt(Head(ds)))

RECURSIVE BigDivSeq(_, _)
\* divide a by every element of ds in turn; exact iff every remainder is 0
BigDivSeq(a, ds) ==
    IF ds = <<>> THEN [q |-> a, exact |-> TRUE]
    ELSE LET step == BigDivInt(a, Head(ds), 0)
             rest == BigDivSeq(step.q, Tail(ds))
         IN  [q |-> rest.q, exact |-> (step.r = 0) /\ rest.exact]

\* RoundChoices for a wide natural n and the divisor D = d1 * ... * dk:
\* q = floor((2n + D) / 2D) is the nearest integer, and n / D is a tie
\* between q - 1 and q exactly when that division leaves no remainder
BigRoundChoices(n, ds) ==
    LET D == BigProduct(ds)
        t == BigAdd(BigMulLimb(n, 2, 0), D, 0)
        res == BigDivSeq(t, <<2>> \o ds)
        q == BigToInt(res.q)
    IN  IF res.exact THEN {q - 1, q} ELSE {q}

----------------------------------------------------------------------------
(* Helpers de scoring *)

ConfUnit == 10^5

\* variant: the boundaries 0.15 and 0.35 belong to the upper step
_area_factor_exclusive(area_ratio) ==
    IF area_ratio < 15 THEN 6
    ELSE IF area_ratio < 35 THEN 10
    ELSE 13

\* area_ratio in hundredths; result in tenths
_area_factor(area_ratio) ==
    IF area_ratio <= 15 THEN 6
    ELSE IF area_ratio <= 35 THEN 10
    ELSE 13

\* variant: only the floor_type "absorbent" itself lowers the score
_physical_score_exact_floor(detection, context) ==
    LET substance == Lower(OrStr(<<detection.substance_pred>>, "unknown"))
        area_ratio == OrNum(detection.area_ratio)
        floor_type == Lower(OrStr(context.floor_type, ""))
        base == IF substance = "water" THEN 20
                ELSE IF substance = "oil" THEN 40
                ELSE IF substance = "chemical" THEN 70
                ELSE 30
        af == _area_factor(area_ratio)
        floor_factor == IF floor_type = "absorbent" THEN 8 ELSE 11
        score == base * af * floor_factor * (ScoreUnit \div 100)
    IN  Max(0, Min(score, 100 * ScoreUnit))

_physical_score(detection, context) ==
    LET substance == Lower(OrStr(<<detection.substance_pred>>, "unknown"))
        area_ratio == OrNum(detection.area_ratio)
        floor_type == Lower(OrStr(context.floor_type, ""))
        base == IF substance = "water" THEN 20
                ELSE IF substance = "oil" THEN 40
                ELSE IF substance = "chemical" THEN 70
                ELSE 30
        af == _area_factor(area_ratio)
        floor_factor == IF Contains("absorbent", floor_type) THEN 8 ELSE 11
        score == base * af * floor_factor * (ScoreUnit \div 100)
    IN  Max(0, Min(score, 100 * ScoreUnit))

\* variant: production and storage zones ignore the proximity
_electrical_score_any_proximity(detection, context) ==
    LET substance == Lower(OrStr(<<detection.substance_pred>>, "unknown"))
        zone_type == Lower(OrStr(context.zone_type, ""))
        area_ratio == OrNum(detection.area_ratio)
        base == IF zone_type = "electrical_room"
                THEN IF substance = "chemical" THEN 80
                     ELSE IF substance = "water" THEN 60
                     ELSE IF substance = "oil" THEN 40
                     ELSE 0
                ELSE IF zone_type \in {"production", "storage"}
                THEN IF substance = "chemical" THEN 50
                     ELSE IF substance = "oil" THEN 40
                     ELSE IF substance = "water" THEN 25
                     ELSE 0
                ELSE 0
        af == _area_factor(area_ratio)
        score == base * af * (ScoreUnit \div 10)
    IN  Max(0, Min(score, 100 * ScoreUnit))

_electrical_score(detection, context) ==
    LET substance == Lower(OrStr(<<detection.substance_pred>>, "unknown"))
        zone_type == Lower(OrStr(context.zone_type, ""))
        proximity == Lower(OrStr(context.proximity_to_machines, ""))
        area_ratio == OrNum(detection.area_ratio)
        base == IF zone_type = "electrical_room"
                THEN IF substance = "chemical" THEN 80
                     ELSE IF substance = "water" THEN 60
                     ELSE IF substance = "oil" THEN 40
                     ELSE 0
                ELSE IF zone_type \in {"production", "storage"}
                THEN IF proximity \in {"near_machine", "critical_machine"}
                     THEN IF substance = "chemical" THEN 50
                          ELSE IF substance = "oil" THEN 40
                          ELSE IF substance = "water" THEN 25
                          ELSE 0
                     ELSE 0
                ELSE 0
        af == _area_factor(area_ratio)
        score == base * af * (ScoreUnit \div 10)
    IN  Max(0, Min(score, 100 * ScoreUnit))

\* variant: a spill far from the machines counts as one next to them
_human_safety_score_far_as_near(detection, context) ==
    LET substance == Lower(OrStr(<<detection.substance_pred>>, "unknown"))
        area_ratio == OrNum(detection.area_ratio)
        base == IF substance = "water" THEN 20
                ELSE IF substance = "oil" THEN 40
                ELSE IF substance = "chemical" THEN 70
                ELSE 30
        af == _area_factor(area_ratio)
        pf == IF Lower(OrStr(context.proximity_to_machines, "")) = "critical_machine"
              THEN 12 ELSE 10
        score == base * af * pf * (ScoreUnit \div 100)
    IN  Max(0, Min(score, 100 * ScoreUnit))

_human_safety_score(detection, context) ==
    LET substance == Lower(OrStr(<<detection.substance_pred>>, "unknown"))
        proximity == Lower(OrStr(context.proximity_to_machines, ""))
        area_ratio == OrNum(detection.area_ratio)
        base == IF substance = "water" THEN 20
                ELSE IF substance = "oil" THEN 40
                ELSE IF substance = "chemical" THEN 70
                ELSE 30
        af == _area_factor(area_ratio)
        pf == IF proximity = "far" THEN 7
              ELSE IF proximity = "near_machine" THEN 10
              ELSE IF proximity = "critical_machine" THEN 12
              ELSE 10
        score == base * af * pf * (ScoreUnit \div 100)
    IN  Max(0, Min(score, 100 * ScoreUnit))

\* variant: the production value is not capped at 100
_business_score_uncapped(detection, context) ==
    LET zone_type == Lower(OrStr(context.zone_type, ""))
        area_ratio == OrNum(detection.area_ratio)
        prod_value == OrNum(context.production_value_per_hour)
        zone_mult == IF zone_type = "production" THEN 10
                     ELSE IF zone_type = "electrical_room" THEN 8
                     ELSE IF zone_type = "storage" THEN 7
                     ELSE 5
        base == prod_value * (ScoreUnit \div 500)
        af == _area_factor(area_ratio)
        score == (base \div 100) * af * zone_mult
    IN  Max(0, Min(score, 100 * ScoreUnit))

_business_score(detection, context) ==
    LET zone_type == Lower(OrStr(context.zone_type, ""))
        area_ratio == OrNum(detection.area_ratio)
        prod_value == OrNum(context.production_value_per_hour)
        zone_mult == IF zone_type = "production" THEN 10
                     ELSE IF zone_type = "electrical_room" THEN 8
                     ELSE IF zone_type = "storage" THEN 7
                     ELSE 5
        \* prod_value / 500.0 in score units is prod_value * 200, exactly
        base == Min(prod_value * (ScoreUnit \div 500), 100 * ScoreUnit)
        af == _area_factor(area_ratio)
        \* base is a multiple of 100, so the division is exact
        score == (base \div 100) * af * zone_mult
    IN  Max(0, Min(score, 100 * ScoreUnit))

\* variant: the confidence score is not clamped
_model_confidence_score_unclamped(detection) ==
    detection.confidence * 100 * (ScoreUnit \div ConfUnit)

_model_confidence_score(detection) ==
    LET conf == detection.confidence
    IN  Max(0, Min(conf * 100 * (ScoreUnit \div ConfUnit), 100 * ScoreUnit))

\* variant: the breakpoints belong to the lower tier
_severity_level_inclusive(score, unit) ==
    IF score <= 25 * unit THEN "LOW"
    ELSE IF score <= 50 * unit THEN "MEDIUM"
    ELSE IF score <= 75 * unit THEN "HIGH"
    ELSE "CRITICAL"

\* score is given in units of 1/unit
_severity_level(score, unit) ==
    IF score < 25 * unit THEN "LOW"
    ELSE IF score < 50 * unit THEN "MEDIUM"
    ELSE IF score < 75 * unit THEN "HIGH"
    ELSE "CRITICAL"

\* _severity_level of the float computed for score: when the exact value is
\* a breakpoint, the float may also lie just below it
LevelChoices(score, unit) ==
    {_severity_level(score, unit)}
    \cup (IF score \in {25 * unit, 50 * unit, 75 * unit}
          THEN {_severity_level(score - 1, unit)} ELSE {})

\* variant: an unrecognized substance damages as much as oil
_estimate_cost_unknown_as_oil(global_score, detection, context) ==
    LET prod_value == OrNum(context.production_value_per_hour)
        area_ratio == OrNum(detection.area_ratio)
        substance == Lower(OrStr(<<detection.substance_pred>>, "unknown"))
        hours_lost == Min(4 * area_ratio, 400)
        dmg_factor == IF substance = "water" THEN 6
                      ELSE IF substance = "chemical" THEN 20
                      ELSE 10
        base_loss == prod_value * hours_lost * dmg_factor
        severity_factor == 50000 + global_score
    IN  IF base_loss > 0
        THEN BigMul(BigFromInt(base_loss), BigFromInt(severity_factor))
        ELSE <<0>>

\* global_score in 1/1000; result: the unrounded cost as a wide natural in
\* units of 1e-8 euro (1 * 1/100 * 1/10 * 1/100000)
_estimate_cost(global_score, detection, context) ==
    LET prod_value == OrNum(context.production_value_per_hour)
        area_ratio == OrNum(detection.area_ratio)
        substance == Lower(OrStr(<<detection.substance_pred>>, "unknown"))
        hours_lost == Min(4 * area_ratio, 400)
        dmg_factor == IF substance = "water" THEN 6
                      ELSE IF substance = "oil" THEN 10
                      ELSE IF substance = "chemical" THEN 20
                      ELSE 8
        base_loss == prod_value * hours_lost * dmg_factor
        severity_factor == 50000 + global_score
    IN  IF base_loss > 0
        THEN BigMul(BigFromInt(base_loss), BigFromInt(severity_factor))
        ELSE <<0>>

\* variant: the power cutoff comes before the substance instruction
_build_recommendations_power_first(level, detection, context) ==
    LET substance == Lower(OrStr(<<detection.substance_pred>>, "unknown"))
        zone_type == Lower(OrStr(context.zone_type, ""))
    IN  <<"Isoler la zone et baliser l'accès (cones, rubalise).">>
        \o (IF zone_type = "electrical_room"
              THEN <<"Couper l'alimentation électrique de la zone si possible et sécurisé.">>
            ELSE <<>>)
        \o (IF substance = "oil"
              THEN <<"Nettoyage urgent avec kit absorbant adapté à l'huile.">>
            ELSE IF substance = "water"
              THEN <<"Sécher / nettoyer la zone pour éviter les chutes.">>
            ELSE IF substance = "chemical"
              THEN <<"Déclencher la procédure de déversement chimique (EPI, SDS, ventilation).">>
            ELSE <<>>)
        \o (IF level \in {"HIGH", "CRITICAL"}
              THEN <<"Informer immédiatement le responsable HSE / sécurité du site.",
                     "Documenter l'incident dans le registre HSE et analyser les causes racines.">>
            ELSE <<"Documenter l'incident dans le registre HSE.">>)

_build_recommendations(level, detection, context) ==
    LET substance == Lower(OrStr(<<detection.substance_pred>>, "unknown"))
        zone_type == Lower(OrStr(context.zone_type, ""))
    IN  <<"Isoler la zone et baliser l'accès (cones, rubalise).">>
        \o (IF substance = "oil"
              THEN <<"Nettoyage urgent avec kit absorbant adapté à l'huile.">>
            ELSE IF substance = "water"
              THEN <<"Sécher / nettoyer la zone pour éviter les chutes.">>
            ELSE IF substance = "chemical"
              THEN <<"Déclencher la procédure de déversement chimique (EPI, SDS, ventilation).">>
            ELSE <<>>)
        \o (IF zone_type = "electrical_room"
              THEN <<"Couper l'alimentation électrique de la zone si possible et sécurisé.">>
            ELSE <<>>)
        \o (IF level \in {"HIGH", "CRITICAL"}
              THEN <<"Informer immédiatement le responsable HSE / sécurité du site.",
                     "Documenter l'incident dans le registre HSE et analyser les causes racines.">>
            ELSE <<"Documenter l'incident dans le registre HSE.">>)

\* f"{score:.1f}" for a score in 1/1000
Format1f(score) ==
    {ToString(t \div 10) \o "." \o ToString(t % 10) : t \in RoundChoices(score, 100)}

\* score_1f is the text of the {score:.1f} field
_build_explanation(level, score_1f, detection, context) ==
    LET substance == OrStr(<<detection.substance_pred>>, "unknown")
        zone == OrStr(context.zone_type, "unknown")
        proximity == OrStr(context.proximity_to_machines, "unknown")
    IN  "Incident classé " \o level \o " (score " \o score_1f \o "/100). "
        \o "Substance détectée : " \o substance \o ". "
        \o "Zone : " \o zone \o ", proximité aux équipements : " \o proximity \o ". "
        \o "Les scores détaillés (physique, électrique, humain, business, confiance modèle) "
        \o "contribuent chacun au score global en fonction de leur poids."

\* variant: human safety is halved like the physical score
_apply_mitigation_human_half(physical, electrical, human, business, model_conf) ==
    <<physical * 5, electrical * 5, human * 5, business * 7, model_conf * 10>>

\* sub-scores in 1/ScoreUnit; results in 1/(10 * ScoreUnit)
_apply_mitigation(physical, electrical, human, business, model_conf) ==
    <<physical * 5, electrical * 5, human * 6, business * 7, model_conf * 10>>

----------------------------------------------------------------------------
(* Fonction principale appelée par l'API *)

\* Poids, in 1/WeightUnit
w_human == 4

\* variant: the physical score weighs no more than the human one
w_physical_as_human == w_human

w_physical == 7
w_electrical == 4
w_business == 3
w_model_conf == 2

\* variant: the contribution is computed from the rounded value
Factor_from_reported_value(name, score, w) ==
    {[name |-> name, value |-> v, weight |-> w * (100 \div WeightUnit),
      contribution |-> c]
     : v \in RoundChoices(score, ScoreUnit \div 100),
       c \in UNION {RoundChoices(v2 * w * (100 \div WeightUnit), 10)
                    : v2 \in RoundChoices(score, ScoreUnit \div 100)}}

\* the entries the factors list may hold for one sub-score: value in
\* 1/100, weight in 1/100, contribution in 1/1000
Factor(name, score, w) ==
    {[name |-> name, value |-> v, weight |-> w * (100 \div WeightUnit),
      contribution |-> c]
     : v \in RoundChoices(score, ScoreUnit \div 100),
       c \in RoundChoices(score * w, (ScoreUnit * WeightUnit) \div 1000)}

\* variant: the sum leaves the last factor out
SumContributions_skip_last(factors) ==
    factors[1].contribution + factors[2].contribution
    + factors[3].contribution + factors[4].contribution

RECURSIVE SumContributions(_)
\* sum(f["contribution"] for f in factors)
SumContributions(factors) ==
    IF factors = <<>> THEN 0
    ELSE Head(factors).contribution + SumContributions(Tail(factors))

\* variant: the last detection is scored
ScoredDetection_last(detections) == detections[Len(detections)]

\* the detection build_risk_result scores
ScoredDetection(detections) == detections[1]

HelperNames ==
    {"_physical_score", "_electrical_score", "_human_safety_score",
     "_business_score", "_model_confidence_score", "_severity_level",
     "_estimate_cost", "_build_explanation", "_build_recommendations",
     "_apply_mitigation"}

\* variant: the degraded result carries no explanation
EmptyResult_no_explanation(image_id) ==
    [image_id |-> image_id,
     global_severity_score |-> 0,
     global_severity_level |-> "LOW",
     estimated_cost |-> 0,
     currency |-> "EUR",
     factors |-> <<>>,
     explanation |-> "",
     recommendations |-> <<>>,
     mitigated_severity_score |-> 0,
     mitigated_severity_level |-> "LOW",
     mitigated_cost |-> 0,
     risk_reduction_pct |-> 0]

\* Cas dégradé : pas de détection -> tout à zéro
EmptyResult(image_id) ==
    [image_id |-> image_id,
     global_severity_score |-> 0,
     global_severity_level |-> "LOW",
     estimated_cost |-> 0,
     currency |-> "EUR",
     factors |-> <<>>,
     explanation |-> "Aucune détection fournie. Score de risque nul.",
     recommendations |-> <<>>,
     mitigated_severity_score |-> 0,
     mitigated_severity_level |-> "LOW",
     mitigated_cost |-> 0,
     risk_reduction_pct |-> 0]

\* variant: the pre-mitigation cost is scaled by mitigated_score / 100
MitigatedCost_over_100(estimated_cost, mitigated_score, global_score) ==
    IF global_score > 0
    THEN BigRoundChoices(BigMul(estimated_cost, BigFromInt(mitigated_score)),
                         <<LimbBase, LimbBase, 200, 100000>>)
    ELSE {0}

\* Coût après mitigation, reported in cents: estimated_cost (wide, 1e-8 euro)
\* * (mitigated_score / global_score)
\*   = cost/10^8 * (mitigated/MitUnit) / (global/1000) * 100 cents
MitigatedCost(estimated_cost, mitigated_score, global_score) ==
    IF global_score > 0
    THEN BigRoundChoices(BigMul(estimated_cost, BigFromInt(mitigated_score)),
                         <<LimbBase, LimbBase, 200, global_score>>)
    ELSE {0}

\* variant: the reduction is taken relative to the mitigated score
RiskReductionPct_of_mitigated(global_score, mitigated_score) ==
    IF global_score > 0
    THEN RoundChoices(((MitUnit \div 1000) * global_score - mitigated_score) * 10,
                      mitigated_score \div 100)
    ELSE {0}

\* Réduction en %, reported in tenths of a percent:
\* (global - mitigated) / global * 100
RiskReductionPct(global_score, mitigated_score) ==
    IF global_score > 0
    THEN RoundChoices((MitUnit \div 1000) * global_score - mitigated_score,
                      20 * global_score)
    ELSE {0}

\* The outcomes of one call: the returned RiskResult (ret), the unrounded
\* values of the local variables (locals) and the helpers invoked (calls).
build_risk_result(image_id, detections, context) ==
    IF detections = <<>>
    THEN {[ret |-> EmptyResult(image_id),
           locals |-> [empty |-> TRUE],
           calls |-> {}]}
    ELSE
    LET det == ScoredDetection(detections)
        physical == _physical_score(det, context)
        electrical == _electrical_score(det, context)
        human == _human_safety_score(det, context)
        business == _business_score(det, context)
        model_conf == _model_confidence_score(det)
        after == _apply_mitigation(physical, electrical, human, business, model_conf)
        mitigated_score == after[1] * w_physical + after[2] * w_electrical
                           + after[3] * w_human + after[4] * w_business
                           + after[5] * w_model_conf
    IN  UNION {
        LET factors == <<f1, f2, f3, f4, f5>>
            global_score == SumContributions(factors)
            estimated_cost == _estimate_cost(global_score, det, context)
        IN  {[ret |-> [image_id |-> image_id,
                       global_severity_score |-> g,
                       global_severity_level |-> global_level,
                       estimated_cost |-> ec,
                       currency |-> "EUR",
                       factors |-> factors,
                       explanation |->
                           _build_explanation(global_level, score_1f, det, context),
                       recommendations |->
                           _build_recommendations(global_level, det, context),
                       mitigated_severity_score |-> m,
                       mitigated_severity_level |-> mitigated_level,
                       mitigated_cost |-> mc,
                       risk_reduction_pct |-> pct],
              locals |-> [empty |-> FALSE,
                          physical |-> physical, electrical |-> electrical,
                          human |-> human, business |-> business,
                          model_conf |-> model_conf,
                          global_score |-> global_score,
                          mitigated_score |-> mitigated_score],
              calls |-> HelperNames]
             : global_level \in LevelChoices(global_score, 1000),
               g \in RoundChoices(global_score, 10),
               ec \in BigRoundChoices(estimated_cost, <<LimbBase, 100>>),
               score_1f \in Format1f(global_score),
               mitigated_level \in LevelChoices(mitigated_score, MitUnit),
               m \in RoundChoices(mitigated_score, MitUnit \div 100),
               mc \in MitigatedCost(estimated_cost, mitigated_score, global_score),
               pct \in RiskReductionPct(global_score, mitigated_score)}
        : f1 \in Factor("physical", physical, w_physical),
          f2 \in Factor("electrical", electrical, w_electrical),
          f3 \in Factor("human_safety", human, w_human),
          f4 \in Factor("business", business, w_business),
          f5 \in Factor("model_confidence", model_conf, w_model_conf)}

----------------------------------------------------------------------------
(* Requests: the values a RiskRequest (schema.py) may carry *)

\* largest number of detections that follow the first one in a request
MaxRest == 2

Substances == {"water", "oil", "chemical", "sand", "Oil", "CHEMICAL", ""}
Confidences == {-50000, 0, 32890, 32900, 50000, 93000, 93412, 93455, 100000, 120000}
AreaRatios == {<<>>, <<-10>>, <<0>>, <<15>>, <<16>>, <<30>>, <<35>>, <<36>>,
               <<50>>, <<100>>, <<150>>}
ZoneTypes == {<<>>, <<"production">>, <<"electrical_room">>, <<"storage">>,
              <<"corridor">>, <<"Production">>, <<"">>}
Proximities == {<<>>, <<"far">>, <<"near_machine">>, <<"critical_machine">>,
                <<"in_machine">>}
FloorTypes == {<<>>, <<"absorbent">>, <<"non_absorbent">>, <<"concrete">>,
               <<"Absorbent mat">>}
ProdValues == {<<>>, <<-1000>>, <<0>>, <<8000>>, <<8002>>, <<50000>>, <<60000>>}
ImageIds == {"img_001", "img_002"}

Detection(substance, confidence, area_ratio) ==
    [id |-> "det_1", label |-> "spill", substance_pred |-> substance,
     confidence |-> confidence, area_ratio |-> area_ratio]

Context(zone_type, proximity, floor_type, prod_value) ==
    [site_id |-> "SITE_001", zone_id |-> <<"Z1">>, zone_type |-> zone_type,
     proximity_to_machines |-> proximity, floor_type |-> floor_type,
     production_value_per_hour |-> prod_value]

AllDetections ==
    {Detection(s, c, a) : s \in Substances, c \in Confidences, a \in AreaRatios}

AllContexts ==
    {Context(z, p, f, v) : z \in ZoneTypes, p \in Proximities, f \in FloorTypes,
                           v \in ProdValues}

\* the recognized values, crossed
CoreDetections ==
    {Detection(s, c, a) : s \in {"water", "oil", "chemical", "sand"},
                          c \in {32890, 32900, 93480},
                          a \in {<<>>, <<15>>, <<30>>, <<50>>}}

CoreContexts ==
    {Context(z, p, f, v) :
        z \in {<<>>, <<"production">>, <<"electrical_room">>, <<"storage">>},
        p \in {<<>>, <<"far">>, <<"near_machine">>, <<"critical_machine">>},
        f \in {<<>>, <<"absorbent">>, <<"non_absorbent">>},
        v \in {<<>>, <<8000>>, <<60000>>}}

\* the example payload of adapter_example.py, the request with every
\* sub-score at its maximum, and the one with every sub-score at its minimum
BaseDetections ==
    {Detection("oil", 93000, <<30>>), Detection("chemical", 100000, <<50>>),
     Detection("water", 0, <<0>>)}

BaseContexts ==
    {Context(<<"production">>, <<"near_machine">>, <<"non_absorbent">>, <<8000>>),
     Context(<<"electrical_room">>, <<"critical_machine">>, <<"concrete">>, <<60000>>),
     Context(<<"corridor">>, <<"far">>, <<"absorbent">>, <<0>>)}

\* detections that may follow the first one
RestDetections ==
    {[id |-> "det_2", label |-> "spill", substance_pred |-> "chemical",
      confidence |-> 100000, area_ratio |-> <<100>>],
     [id |-> "det_3", label |-> "leak", substance_pred |-> "water",
      confidence |-> 0, area_ratio |-> <<>>]}

RECURSIVE SeqsUpTo(_, _)
\* the sequences over S of length at most n
SeqsUpTo(S, n) ==
    IF n = 0 THEN {<<>>}
    ELSE LET shorter == SeqsUpTo(S, n - 1)
         IN  shorter \cup {Append(q, x) : q \in shorter, x \in S}

Request(image_id, detections, context) ==
    [image_id |-> image_id, detections |-> detections, context |-> context]

Requests ==
    {Request("img_001", <<d>>, c) : d \in CoreDetections, c \in CoreContexts}
    \cup {Request("img_001", <<d>>, c) : d \in AllDetections, c \in BaseContexts}
    \cup {Request("img_001", <<d>>, c) : d \in BaseDetections, c \in AllContexts}
    \cup {Request(i, <<d>> \o rest, c) :
             i \in ImageIds, d \in CoreDetections,
             rest \in SeqsUpTo(RestDetections, MaxRest), c \in BaseContexts}
    \cup {Request(i, <<>>, c) : i \in ImageIds, c \in AllContexts}

\* scores in 1/1000 handed to _severity_level on its own
SeverityScores ==
    {-1000, 0, 1, 12500, 24990, 24999, 25000, 25001, 37500, 49999, 50000,
     50001, 62500, 74999, 75000, 75001, 99999, 100000, 150000}

\* area ratios in 1/100 handed to _area_factor on its own
AreaValues ==
    {-10, 0, 1, 14, 15, 16, 30, 34, 35, 36, 50, 60, 100, 150}

----------------------------------------------------------------------------
(* The state machine *)

Init ==
    /\ fn = "idle"
    /\ args = <<>>
    /\ locals = <<>>
    /\ ret = <<>>
    /\ calls = {}
    /\ history_store = <<>>
    /\ btn_run = 0
    /\ main_tabs = "tab-detection"

\* analyze_risk / risk_report (main.py) hand the request to the engine
CallBuildRiskResult ==
    /\ fn = "idle"
    /\ \E req \in Requests :
         \E out \in build_risk_result(req.image_id, req.detections, req.context) :
            /\ fn' = "build_risk_result"
            /\ args' = req
            /\ locals' = out.locals
            /\ ret' = out.ret
            /\ calls' = out.calls
            /\ UNCHANGED browser

\* _severity_level applied to a score of its own
CallSeverityLevel ==
    /\ fn = "idle"
    /\ \E score \in SeverityScores :
         /\ fn' = "_severity_level"
         /\ args' = [score |-> score]
         /\ locals' = <<>>
         /\ ret' = _severity_level(score, 1000)
         /\ calls' = {}
         /\ UNCHANGED browser

\* _area_factor applied to an area_ratio of its own
CallAreaFactor ==
    /\ fn = "idle"
    /\ \E area_ratio \in AreaValues :
         /\ fn' = "_area_factor"
         /\ args' = [area_ratio |-> area_ratio]
         /\ locals' = <<>>
         /\ ret' = _area_factor(area_ratio)
         /\ calls' = {}
         /\ UNCHANGED browser

\* the call is over; the engine keeps nothing of it
Return ==
    /\ fn # "idle"
    /\ fn' = "idle"
    /\ args' = <<>>
    /\ locals' = <<>>
    /\ ret' = <<>>
    /\ calls' = {}
    /\ UNCHANGED browser

Next == CallBuildRiskResult \/ CallSeverityLevel \/ CallAreaFactor \/ Return

Spec == Init /\ [][Next]_vars

----------------------------------------------------------------------------
(* The dashboard (risk_dashboard.py): two callbacks that send one demo     *)
(* payload to the risk service and show what comes back.  A dropdown or    *)
(* input value is <<>> (None) or <<v>>; history-store holds a sequence of  *)
(* entries; a card holds the values its text is formatted from.            *)

RISK_SERVICE_URL == "https://treloxai-riskops.onrender.com/risk/analyze"

\* (opt or default) for a number: None and 0 are both falsy
OrDefault(opt, default) ==
    IF opt = <<>> THEN default
    ELSE IF opt[1] = 0 THEN default ELSE opt[1]

\* confidence in 1/ConfUnit, area_ratio in hundredths
build_demo_payload(site_id, zone_type, proximity, floor_type, prod_value_per_hour, substance, confidence, area_ratio) ==
    [image_id |-> "img_demo",
     detections |-> <<[id |-> "det_1", label |-> "spill",
                       substance_pred |-> substance,
                       confidence |-> confidence,
                       area_ratio |-> <<area_ratio>>]>>,
     context |-> [site_id |-> site_id, zone_id |-> <<"Z1">>,
                  zone_type |-> <<zone_type>>,
                  proximity_to_machines |-> <<proximity>>,
                  floor_type |-> <<floor_type>>,
                  production_value_per_hour |-> <<prod_value_per_hour>>]]

empty_history_figure == [x |-> <<>>, traces |-> <<>>]

\* requests.post(url, json=payload, timeout=10): the request put on the wire
Post(url, payload, timeout) == [url |-> url, json |-> payload, timeout |-> timeout]

\* What requests.post can come back with.  raised is the exception the call
\* itself raises ("" when a response arrived), text is str(e) of it, body
\* is <<>> when the response carries no JSON document.
Response(raised, text, status_code, body) ==
    [raised |-> raised, text |-> text, status_code |-> status_code, body |-> body]

\* the service (main.py analyze_risk) answers a valid payload with the
\* engine's result; the transport and the host can fail instead
Responses(payload) ==
    {Response("", "", 200, <<out.ret>>) :
        out \in build_risk_result(payload.image_id, payload.detections,
                                  payload.context)}
    \cup {Response("ConnectionError", "Connection refused", 0, <<>>),
          Response("ReadTimeout", "", 0, <<>>),
          Response("", "", 500, <<>>),
          Response("", "", 404, <<>>),
          Response("", "", 200, <<>>)}

\* resp.raise_for_status(): an HTTPError for a status of 400..599
HTTPErrorText(status_code) ==
    ToString(status_code)
    \o (IF status_code < 500 THEN " Client Error" ELSE " Server Error")
    \o " for url: " \o RISK_SERVICE_URL

\* the try block up to data = resp.json(): <<>> when all three calls pass,
\* else <<str(e)>> of the exception that leaves the block
Raised(resp) ==
    IF resp.raised # "" THEN <<resp.text>>
    ELSE IF resp.status_code >= 400 /\ resp.status_code < 600
         THEN <<HTTPErrorText(resp.status_code)>>
    ELSE IF resp.body = <<>> THEN <<"Expecting value: line 1 column 1 (char 0)">>
    ELSE <<>>

\* saved and roi_pct of the cards: roi_pct = 100 * saved / cost, kept as the
\* two numbers it is computed from
Saved(cost, mitigated_cost) ==
    IF mitigated_cost < cost
        THEN <<[saved |-> cost - mitigated_cost,
                roi_pct |-> IF cost > 0
                              THEN <<[saved |-> cost - mitigated_cost,
                                      cost |-> cost]>>
                            ELSE <<>>]>>
    ELSE <<>>

\* the payload run_risk_analysis builds from the form
RunPayload(site_id, zone_type, substance, proximity, floor_type, prod_value_per_hour) ==
    build_demo_payload(OrStr(site_id, "SITE_001"),
                       OrStr(zone_type, "production"),
                       OrStr(proximity, "near_machine"),
                       OrStr(floor_type, "non_absorbent"),
                       OrDefault(prod_value_per_hour, 8000),
                       OrStr(substance, "oil"), 90000, 30)

\* the payload simulate_detection builds: conf in percent, area_ratio in
\* hundredths
SimulatePayload(substance, conf, area_ratio, site_id) ==
    build_demo_payload(OrStr(site_id, "SITE_001"), "production",
                       "near_machine", "non_absorbent", 8000,
                       OrStr(substance, "oil"),
                       OrDefault(conf, 90) * (ConfUnit \div 100),
                       OrDefault(area_ratio, 30))

\* variant: without a click the history received is handed back
run_risk_analysis_no_click_keeps_history(history_data) ==
    [summary_cards |-> <<>>, factors |-> <<>>, explanation |-> "",
     raw_json |-> <<>>, recommendations |-> <<>>, history_store |-> history_data,
     history_graph |-> empty_history_figure, error_message |-> ""]

\* run_risk_analysis when n_clicks is None or 0: the same eight values
\* whatever history_data holds
run_risk_analysis_no_click(history_data) ==
    [summary_cards |-> <<>>, factors |-> <<>>, explanation |-> "",
     raw_json |-> <<>>, recommendations |-> <<>>, history_store |-> <<>>,
     history_graph |-> empty_history_figure, error_message |-> ""]

\* variant: the new entry replaces the history
NewHistory_replaces(history_data, severity, mitigated_score) ==
    <<[index |-> Len(history_data) + 1, score |-> severity,
       mitigated_score |-> mitigated_score]>>

\* history_data after the append of the Historique block
NewHistory(history_data, severity, mitigated_score) ==
    LET new_index == Len(history_data) + 1
    IN  Append(history_data,
               [index |-> new_index, score |-> severity,
                mitigated_score |-> mitigated_score])

\* variant: a failed call hands back an empty history
run_risk_analysis_except_drops_history(history_data, e) ==
    [summary_cards |-> <<>>, factors |-> <<>>, explanation |-> "",
     raw_json |-> <<>>, recommendations |-> <<>>, history_store |-> <<>>,
     history_graph |-> empty_history_figure,
     error_message |-> "Erreur : " \o e]

\* the except branch of run_risk_analysis; e is str(e)
run_risk_analysis_except(history_data, e) ==
    [summary_cards |-> <<>>, factors |-> <<>>, explanation |-> "",
     raw_json |-> <<>>, recommendations |-> <<>>,
     history_store |-> history_data,
     history_graph |-> empty_history_figure,
     error_message |-> "Erreur : " \o e]

\* the rest of the try block, once data = resp.json() is there.  The
\* service fills the mitigated_* fields of every scored result, and a demo
\* payload always has its one detection.
run_risk_analysis_show(data, history_data) ==
    LET severity == data.global_severity_score
        level == data.global_severity_level
        cost == data.estimated_cost
        mitigated_score == data.mitigated_severity_score
        mitigated_level == data.mitigated_severity_level
        mitigated_cost == data.mitigated_cost
        risk_reduction_pct == data.risk_reduction_pct
        saved == Saved(cost, mitigated_cost)
        summary_cards ==
            <<[title |-> "Niveau de risque (avant)", level |-> level,
               score |-> severity],
              [title |-> "Coût estimé (avant)", cost |-> cost],
              [title |-> "Après mitigation", level |-> mitigated_level,
               score |-> mitigated_score, cost |-> mitigated_cost,
               reduction |-> risk_reduction_pct]>>
            \o (IF saved # <<>>
                  THEN <<[title |-> "Économie potentielle",
                          saved |-> saved[1].saved,
                          roi_pct |-> saved[1].roi_pct]>>
                ELSE <<>>)
        recs == data.recommendations
        rec_children ==
            IF recs # <<>> THEN recs
            ELSE <<"Aucune recommandation disponible.">>
        history == NewHistory(history_data, severity, mitigated_score)
        fig == [x |-> [i \in 1..Len(history) |-> history[i].index],
                traces |->
                    <<[name |-> "Score avant",
                       y |-> [i \in 1..Len(history) |-> history[i].score]],
                      [name |-> "Score après",
                       y |-> [i \in 1..Len(history) |->
                                  history[i].mitigated_score]]>>]
    IN  [summary_cards |-> summary_cards, factors |-> data.factors,
         explanation |-> data.explanation, raw_json |-> <<data>>,
         recommendations |-> rec_children, history_store |-> history,
         history_graph |-> fig, error_message |-> ""]

\* resp is what the requests.post of the call comes back with; calls is the
\* sequence of requests the call put on the wire
run_risk_analysis(n_clicks, site_id, zone_type, substance, proximity, floor_type, prod_value_per_hour, history_data, resp) ==
    IF n_clicks = 0
        THEN [ret |-> run_risk_analysis_no_click(history_data), calls |-> <<>>]
    ELSE
    LET payload == RunPayload(site_id, zone_type, substance, proximity,
                              floor_type, prod_value_per_hour)
        e == Raised(resp)
    IN  [ret |-> IF e # <<>>
                   THEN run_risk_analysis_except(history_data, e[1])
                 ELSE run_risk_analysis_show(resp.body[1], history_data),
         calls |-> <<Post(RISK_SERVICE_URL, payload, 10)>>]

\* simulate_detection when n_clicks is None or 0
simulate_detection_no_click ==
    [heatmap_graph |-> empty_history_figure,
     detection_risk_card |->
         <<"Clique sur « Simuler la prédiction » pour voir l'impact RiskOps.">>,
     detection_error |-> ""]

\* variant: the failure is dropped and nothing is shown
simulate_detection_except_silent(e) ==
    [heatmap_graph |-> empty_history_figure,
     detection_risk_card |-> <<"Erreur lors de l'appel au service RiskOps.">>,
     detection_error |-> ""]

\* the except branch of simulate_detection; e is str(e)
simulate_detection_except(e) ==
    [heatmap_graph |-> empty_history_figure,
     detection_risk_card |-> <<"Erreur lors de l'appel au service RiskOps.">>,
     detection_error |-> "Erreur : " \o e]

simulate_detection_show(data) ==
    LET cost == data.estimated_cost
        mitigated_cost == data.mitigated_cost
        saved == Saved(cost, mitigated_cost)
    IN  [heatmap_graph |-> [z |-> <<<<1, 2, 3>>, <<2, 6, 4>>, <<1, 3, 2>>>>],
         detection_risk_card |->
             <<[title |-> "Impact RiskOps (direct)"],
               [level |-> data.global_severity_level,
                score |-> data.global_severity_score],
               [cost |-> cost],
               [level |-> data.mitigated_severity_level,
                score |-> data.mitigated_severity_score,
                cost |-> mitigated_cost,
                reduction |-> data.risk_reduction_pct]>>
             \o (IF saved # <<>>
                   THEN <<[title |-> "Économie potentielle si plan appliqué :",
                           saved |-> saved[1].saved]>>
                 ELSE <<>>),
         detection_error |-> ""]

simulate_detection(n_clicks, substance, conf, area_ratio, site_id, resp) ==
    IF n_clicks = 0
        THEN [ret |-> simulate_detection_no_click, calls |-> <<>>]
    ELSE
    LET payload == SimulatePayload(substance, conf, area_ratio, site_id)
        e == Raised(resp)
    IN  [ret |-> IF e # <<>> THEN simulate_detection_except(e[1])
                 ELSE simulate_detection_show(resp.body[1]),
         calls |-> <<Post(RISK_SERVICE_URL, payload, 10)>>]

\* render_tabs: the layout that replaces the children of tabs-content
render_tabs(tab) ==
    IF tab = "tab-detection" THEN "detection_tab_layout"
    ELSE "riskops_tab_layout"

\* largest n_clicks a button reaches before its tab is rendered anew
MaxClicks == 2

Tabs == {"tab-detection", "tab-riskops"}
FormSiteIds == {<<>>, <<"SITE_001">>}
FormZoneTypes == {<<>>, <<"electrical_room">>}
FormSubstances == {<<"oil">>, <<"water">>}
FormProximities == {<<"near_machine">>}
FormFloorTypes == {<<"non_absorbent">>}
FormProdValues == {<<>>, <<8000>>}
SliderConfidences == {<<>>, <<40>>, <<100>>}
SliderAreas == {<<5>>, <<30>>, <<60>>}

\* a click on "btn-run" while the RiskOps tab is shown
ClickRun ==
    /\ fn = "idle"
    /\ main_tabs = "tab-riskops"
    /\ btn_run < MaxClicks
    /\ \E site_id \in FormSiteIds, zone_type \in FormZoneTypes,
          substance \in FormSubstances, proximity \in FormProximities,
          floor_type \in FormFloorTypes, prod \in FormProdValues :
         \E resp \in Responses(RunPayload(site_id, zone_type, substance,
                                          proximity, floor_type, prod)) :
            LET out == run_risk_analysis(btn_run + 1, site_id, zone_type,
                                         substance, proximity, floor_type,
                                         prod, history_store, resp)
            IN  /\ fn' = "run_risk_analysis"
                /\ args' = [n_clicks |-> btn_run + 1, site_id |-> site_id,
                            zone_type |-> zone_type, substance |-> substance,
                            proximity |-> proximity, floor_type |-> floor_type,
                            prod_value_per_hour |-> prod,
                            history_data |-> history_store]
                /\ locals' = [resp |-> resp]
                /\ ret' = out.ret
                /\ calls' = out.calls
                /\ history_store' = out.ret.history_store
                /\ btn_run' = btn_run + 1
                /\ UNCHANGED main_tabs

\* a click on "btn-simulate-detection" while the detection tab is shown
ClickSimulate ==
    /\ fn = "idle"
    /\ main_tabs = "tab-detection"
    /\ \E n_clicks \in 1..MaxClicks, substance \in FormSubstances,
          conf \in SliderConfidences, area_ratio \in SliderAreas,
          site_id \in FormSiteIds :
         \E resp \in Responses(SimulatePayload(substance, conf, area_ratio,
                                               site_id)) :
            LET out == simulate_detection(n_clicks, substance, conf,
                                          area_ratio, site_id, resp)
            IN  /\ fn' = "simulate_detection"
                /\ args' = [n_clicks |-> n_clicks, substance |-> substance,
                            conf |-> conf, area_ratio |-> area_ratio,
                            site_id |-> site_id]
                /\ locals' = [resp |-> resp]
                /\ ret' = out.ret
                /\ calls' = out.calls
                /\ UNCHANGED browser

\* the user picks the other tab: render_tabs puts a fresh layout in place,
\* and the callback whose button is in it runs with that button's n_clicks=0
\* (locals: the n_clicks and the history-store data that callback is handed)
SelectTab ==
    /\ fn = "idle"
    /\ \E tab \in Tabs \ {main_tabs} :
         LET out == IF render_tabs(tab) = "detection_tab_layout"
                      THEN simulate_detection(0, <<"oil">>, <<90>>, <<30>>,
                                              <<"SITE_001">>, <<>>)
                    ELSE run_risk_analysis(0, <<"SITE_001">>, <<"production">>,
                                           <<"oil">>, <<"near_machine">>,
                                           <<"non_absorbent">>, <<8000>>,
                                           history_store, <<>>)
         IN  /\ fn' = "render_tabs"
             /\ args' = [tab |-> tab]
             /\ locals' = [n_clicks |-> 0, history_data |-> history_store]
             /\ ret' = [children |-> render_tabs(tab), outputs |-> out.ret]
             /\ calls' = out.calls
             /\ main_tabs' = tab
             /\ btn_run' = 0
             /\ history_store' = IF render_tabs(tab) = "riskops_tab_layout"
                                   THEN out.ret.history_store
                                 ELSE history_store

NextDashboard == ClickRun \/ ClickSimulate \/ SelectTab \/ Return

SpecDashboard == Init /\ [][NextDashboard]_vars

----------------------------------------------------------------------------
(* Several callers of the service at once (main.py): each request is       *)
(* handled in a frame of its own, fn[c], args[c], locals[c], ret[c] and    *)
(* calls[c] being those of caller c.  A frame holds the request as it was  *)
(* submitted (locals[c].submitted) next to the objects the engine was      *)
(* handed (args[c]).                                                       *)

\* number of callers whose requests are in progress at once
NumCallers == 2

Callers == 1..NumCallers

\* The float result of a request is a function of the request; requests
\* whose roundings do not fall on a tie have one outcome in this model.
CallerRequests ==
    {req \in {Request(image_id, detections, context) :
                 image_id \in ImageIds,
                 detections \in {<<>>,
                                 <<Detection("oil", 93480, <<30>>)>>,
                                 <<Detection("water", 50000, <<>>)>>,
                                 <<Detection("oil", 93480, <<30>>),
                                   Detection("chemical", 100000, <<50>>)>>},
                 context \in {Context(<<"production">>, <<"near_machine">>,
                                      <<"non_absorbent">>, <<8000>>),
                              Context(<<"electrical_room">>, <<>>, <<>>, <<>>)}} :
        Cardinality(build_risk_result(req.image_id, req.detections,
                                      req.context)) = 1}

\* variant: the engine takes the detection it scores off the caller's list
ArgsAfterCall_pop(req) ==
    IF req.detections = <<>> THEN req
    ELSE [req EXCEPT !.detections = Tail(req.detections)]

\* the caller's image_id, detections and context once build_risk_result has
\* run on them: the engine reads them (detections[0], attributes of det and
\* context) and assigns to none of them
ArgsAfterCall(req) == req

InitCallers ==
    /\ fn = [c \in Callers |-> "idle"]
    /\ args = [c \in Callers |-> <<>>]
    /\ locals = [c \in Callers |-> <<>>]
    /\ ret = [c \in Callers |-> <<>>]
    /\ calls = [c \in Callers |-> {}]
    /\ history_store = <<>>
    /\ btn_run = 0
    /\ main_tabs = "tab-detection"

\* a request arrives: analyze_risk is entered with its payload
Receive(c) ==
    /\ fn[c] = "idle"
    /\ \E req \in CallerRequests :
         /\ fn' = [fn EXCEPT ![c] = "analyze_risk"]
         /\ args' = [args EXCEPT ![c] = req]
         /\ locals' = [locals EXCEPT ![c] = [submitted |-> req]]
    /\ UNCHANGED <<ret, calls, browser>>

\* analyze_risk calls build_risk_result on the payload's objects
Analyze(c) ==
    /\ fn[c] = "analyze_risk"
    /\ \E out \in build_risk_result(args[c].image_id, args[c].detections,
                                    args[c].context) :
         /\ fn' = [fn EXCEPT ![c] = "build_risk_result"]
         /\ args' = [args EXCEPT ![c] = ArgsAfterCall(args[c])]
         /\ ret' = [ret EXCEPT ![c] = out.ret]
         /\ calls' = [calls EXCEPT ![c] = out.calls]
    /\ UNCHANGED <<locals, browser>>

\* the result is sent; nothing of the call is kept
Respond(c) ==
    /\ fn[c] = "build_risk_result"
    /\ fn' = [fn EXCEPT ![c] = "idle"]
    /\ args' = [args EXCEPT ![c] = <<>>]
    /\ locals' = [locals EXCEPT ![c] = <<>>]
    /\ ret' = [ret EXCEPT ![c] = <<>>]
    /\ calls' = [calls EXCEPT ![c] = {}]
    /\ UNCHANGED browser

NextCallers == \E c \in Callers : Receive(c) \/ Analyze(c) \/ Respond(c)

SpecCallers == InitCallers /\ [][NextCallers]_vars

----------------------------------------------------------------------------
(* Properties *)

Returned == fn = "build_risk_result"
Scored == Returned /\ args.detections # <<>>

SubScores ==
    <<locals.physical, locals.electrical, locals.human, locals.business,
      locals.model_conf>>

\* sum of the contributions reported in ret.factors, in 1/1000
ReportedSum ==
    ret.factors[1].contribution + ret.factors[2].contribution
    + ret.factors[3].contribution + ret.factors[4].contribution
    + ret.factors[5].contribution

Abs(x) == IF x < 0 THEN -x ELSE x

\* C1: whatever the detection and the context, negative and over-range
\* numbers included, the five sub-scores, their reported values and the
\* reported global_severity_score lie in [0, 100].
C1_ScoresInRange ==
    Returned =>
        /\ ret.global_severity_score \in 0..(100 * 100)
        /\ \A i \in DOMAIN ret.factors : ret.factors[i].value \in 0..(100 * 100)
        /\ Scored => \A i \in 1..5 : SubScores[i] \in 0..(100 * ScoreUnit)

\* an oil spill with over-range confidence, area and production value, clamped
C1_Witness ==
    /\ Scored
    /\ args.detections[1].substance_pred = "oil"
    /\ args.detections[1].confidence > ConfUnit
    /\ args.detections[1].area_ratio = <<150>>
    /\ args.context.production_value_per_hour = <<60000>>
    /\ locals.model_conf = 100 * ScoreUnit
    /\ locals.business = 100 * ScoreUnit

\* C2: with a non-empty detection list, the reported global_severity_score
\* is the sum of the five reported contributions rounded to 2 decimals.
C2_GlobalIsRoundedSum ==
    Scored => ret.global_severity_score \in RoundChoices(ReportedSum, 10)

\* a sum with a third decimal, so that the rounding acts
C2_Witness ==
    /\ Scored
    /\ ReportedSum % 10 \notin {0, 5}
    /\ ret.global_severity_score * 10 # ReportedSum

\* C3 as stated: the reported global_severity_score is exactly the sum of
\* the five reported contributions.
C3_GlobalEqualsSum ==
    Scored => ret.global_severity_score * 10 = ReportedSum

\* C3 amended: the reported global_severity_score is the sum of the five
\* reported contributions rounded to 2 decimals: equal to the sum when the
\* sum has no third decimal, and within 0.005 of it otherwise.
C3_GlobalWithinRounding ==
    Scored =>
        /\ Abs(ret.global_severity_score * 10 - ReportedSum) <= 5
        /\ ReportedSum % 10 = 0 => ret.global_severity_score * 10 = ReportedSum

\* the sum has a third decimal and the reported score differs from it
C3_Witness ==
    /\ Scored
    /\ ReportedSum % 10 = 4
    /\ ret.global_severity_score * 10 = ReportedSum - 4

FactorNames ==
    <<"physical", "electrical", "human_safety", "business", "model_confidence">>

FactorWeights == <<35, 20, 20, 15, 10>>

\* the names and the weights of the factors list, in order
FactorsShape ==
    /\ Len(ret.factors) = 5
    /\ \A i \in 1..5 : /\ ret.factors[i].name = FactorNames[i]
                       /\ ret.factors[i].weight = FactorWeights[i]

\* C4 as stated: every contribution is the factor's reported value times
\* its weight, rounded to 3 decimals; the weights are 0.35, 0.20, 0.20,
\* 0.15, 0.10 in the order physical ... model_confidence.
C4_ContributionFromReportedValue ==
    Scored =>
        /\ FactorsShape
        /\ \A i \in 1..5 :
              ret.factors[i].contribution
                  \in RoundChoices(ret.factors[i].value * ret.factors[i].weight, 10)

\* C4 amended: every contribution is the unrounded sub-score times its
\* weight, rounded to 3 decimals, and the reported value is the same
\* sub-score rounded to 2 decimals; the weights are 0.35, 0.20, 0.20, 0.15,
\* 0.10 in the order physical ... model_confidence.
C4_ContributionFromSubScore ==
    Scored =>
        /\ FactorsShape
        /\ \A i \in 1..5 :
              /\ ret.factors[i].contribution
                     \in RoundChoices(SubScores[i] * FactorWeights[i],
                                      (ScoreUnit * 100) \div 1000)
              /\ ret.factors[i].value
                     \in RoundChoices(SubScores[i], ScoreUnit \div 100)

\* a business sub-score with more than 2 decimals, whose contribution is
\* not the one its reported value gives
C4_Witness ==
    /\ Scored
    /\ locals.business % (ScoreUnit \div 100) # 0
    /\ ret.factors[4].contribution
           \notin RoundChoices(ret.factors[4].value * ret.factors[4].weight, 10)

Levels == <<"LOW", "MEDIUM", "HIGH", "CRITICAL">>

LevelRank(level) == CHOOSE i \in 1..4 : Levels[i] = level

\* C5: _severity_level is total and monotonic, with the breakpoints at
\* 25, 50 and 75 belonging to the higher tier.
C5_SeverityLevelBreakpoints ==
    fn = "_severity_level" =>
        /\ \E i \in 1..4 : ret = Levels[i]
        /\ ret = "LOW" <=> args.score < 25000
        /\ ret = "MEDIUM" <=> (25000 <= args.score /\ args.score < 50000)
        /\ ret = "HIGH" <=> (50000 <= args.score /\ args.score < 75000)
        /\ ret = "CRITICAL" <=> 75000 <= args.score
        /\ \A lower \in SeverityScores :
              lower <= args.score
                  => LevelRank(_severity_level(lower, 1000)) <= LevelRank(ret)

\* level(25) = MEDIUM
C5_Witness ==
    /\ fn = "_severity_level"
    /\ args.score = 25000
    /\ ret = "MEDIUM"

\* C6 as stated: each reported level is the level of the reported score.
C6_LevelOfReportedScore ==
    Returned =>
        /\ ret.global_severity_level
               = _severity_level(ret.global_severity_score, 100)
        /\ ret.mitigated_severity_level
               = _severity_level(ret.mitigated_severity_score, 100)

\* the limb of a wide natural at position i
Limb(a, i) == IF i <= Len(a) THEN a[i] ELSE 0

\* -1, 0 or 1 as a < b, a = b or a > b, for wide naturals
BigCmp(a, b) ==
    LET n == Max(Len(a), Len(b))
        differ == {i \in 1..n : Limb(a, i) # Limb(b, i)}
    IN  IF differ = {} THEN 0
        ELSE LET top == CHOOSE i \in differ : \A j \in differ : j <= i
             IN  IF Limb(a, top) < Limb(b, top) THEN -1 ELSE 1

\* reported mitigated_cost * reported global score, and reported
\* estimated_cost * reported mitigated score, in 1/10000
CostTimesGlobal ==
    BigMul(BigFromInt(ret.mitigated_cost), BigFromInt(ret.global_severity_score))
EstimateTimesMitigated ==
    BigMul(BigFromInt(ret.estimated_cost), BigFromInt(ret.mitigated_severity_score))

\* C7 as stated: the reported costs and scores satisfy
\* mitigated_cost / estimated_cost = mitigated score / global score when the
\* global score is positive, and both costs are 0 when it is 0.
C7_CostRatioExact ==
    Returned =>
        IF ret.global_severity_score > 0
        THEN BigCmp(CostTimesGlobal, EstimateTimesMitigated) = 0
        ELSE ret.mitigated_cost = 0 /\ ret.estimated_cost = 0

\* the four reported quantities of the ratio, summed (in 1/100)
RatioTerms ==
    ret.mitigated_cost + ret.global_severity_score
    + ret.estimated_cost + ret.mitigated_severity_score

\* C7 amended: the costs and scores are each rounded to 2 decimals when
\* reported, so the reported values satisfy the ratio only up to that
\* rounding: |mitigated_cost * global - estimated_cost * mitigated| is at
\* most 0.005 * (mitigated_cost + global + estimated_cost + mitigated)
\* + 0.00005 when the global score is positive; both costs are 0 when it
\* is 0.
C7_CostRatioWithinRounding ==
    Returned =>
        IF ret.global_severity_score > 0
        THEN LET slack == BigFromInt(RatioTerms + 1)
                 twiceA == BigMulLimb(CostTimesGlobal, 2, 0)
                 twiceB == BigMulLimb(EstimateTimesMitigated, 2, 0)
             IN  /\ BigCmp(twiceA, BigAdd(twiceB, slack, 0)) <= 0
                 /\ BigCmp(twiceB, BigAdd(twiceA, slack, 0)) <= 0
        ELSE ret.mitigated_cost = 0 /\ ret.estimated_cost = 0

\* positive costs whose reported ratio is not the reported score ratio
C7_Witness ==
    /\ Scored
    /\ ret.estimated_cost > 0
    /\ ret.mitigated_cost > 0
    /\ BigCmp(CostTimesGlobal, EstimateTimesMitigated) # 0

\* C8 as stated: risk_reduction_pct is (global - mitigated) / global * 100
\* of the reported global and mitigated scores when the global score is
\* positive, and 0 otherwise.
C8_ReductionFromReportedScores ==
    Returned =>
        IF ret.global_severity_score > 0
        THEN ret.risk_reduction_pct * ret.global_severity_score
                 = 1000 * (ret.global_severity_score - ret.mitigated_severity_score)
        ELSE ret.risk_reduction_pct = 0

\* C8 amended: risk_reduction_pct is (global - mitigated) / global * 100 of
\* the unrounded global and mitigated scores, rounded to 1 decimal, when the
\* unrounded global score is positive, and 0 otherwise; recomputed from the
\* reported scores it is met within 0.05 + 1 / global_severity_score.
C8_ReductionFromUnroundedScores ==
    Returned =>
        IF Scored /\ locals.global_score > 0
        THEN LET whole == (MitUnit \div 1000) * locals.global_score
                 pct == ret.risk_reduction_pct
                 g == ret.global_severity_score
                 m == ret.mitigated_severity_score
             IN  /\ Abs(pct * 20 * locals.global_score
                        - (whole - locals.mitigated_score))
                        <= 10 * locals.global_score
                 /\ g > 0 => 2 * Abs(pct * g - 1000 * (g - m)) <= g + 2000
        ELSE ret.risk_reduction_pct = 0

\* a reduction that the reported scores do not give back
C8_Witness ==
    /\ Scored
    /\ ret.global_severity_score > 0
    /\ ret.risk_reduction_pct > 0
    /\ ret.risk_reduction_pct * ret.global_severity_score
           # 1000 * (ret.global_severity_score - ret.mitigated_severity_score)

\* C9: with an empty detection list, whatever the context and the image_id,
\* the result is score 0, level LOW, cost 0, no factor, no recommendation,
\* mitigated score 0, mitigated level LOW, mitigated cost 0, reduction 0 and
\* the fixed explanation, and no sub-score, cost, explanation or
\* recommendation function has been called.
C9_EmptyDetections ==
    (Returned /\ args.detections = <<>>) =>
        /\ ret.image_id = args.image_id
        /\ ret.global_severity_score = 0
        /\ ret.global_severity_level = "LOW"
        /\ ret.estimated_cost = 0
        /\ ret.factors = <<>>
        /\ ret.recommendations = <<>>
        /\ ret.mitigated_severity_score = 0
        /\ ret.mitigated_severity_level = "LOW"
        /\ ret.mitigated_cost = 0
        /\ ret.risk_reduction_pct = 0
        /\ ret.explanation = "Aucune détection fournie. Score de risque nul."
        /\ calls \cap HelperNames = {}

\* an empty list in the costliest context
C9_Witness ==
    /\ Returned
    /\ args.detections = <<>>
    /\ args.image_id = "img_002"
    /\ args.context.zone_type = <<"electrical_room">>
    /\ args.context.proximity_to_machines = <<"critical_machine">>
    /\ args.context.production_value_per_hour = <<60000>>
    /\ ret.explanation = "Aucune détection fournie. Score de risque nul."

\* C10: the result for [d] + rest is the result for [d], whatever rest.
C10_OnlyFirstDetectionScored ==
    (Returned /\ Len(args.detections) > 1) =>
        LET alone == build_risk_result(args.image_id,
                                       <<args.detections[1]>>, args.context)
            whole == build_risk_result(args.image_id, args.detections,
                                       args.context)
        IN  /\ whole = alone
            /\ [ret |-> ret, locals |-> locals, calls |-> calls] \in alone

\* a sand spill followed by two detections that would score CRITICAL alone
C10_Witness ==
    /\ Returned
    /\ Len(args.detections) = 1 + MaxRest
    /\ args.detections[1].substance_pred = "sand"
    /\ \A i \in 2..Len(args.detections) :
          args.detections[i].substance_pred = "chemical"
    /\ args.context.zone_type = <<"electrical_room">>
    /\ ret.global_severity_level # "CRITICAL"

----------------------------------------------------------------------------
(* The scoring rules as the claims state them, for one detection and context *)

ScoredDet == args.detections[1]

\* the substance, the zone, the proximity and the floor as the engine
\* compares them
SubstanceOf(det) == Lower(IF det.substance_pred = "" THEN "unknown"
                          ELSE det.substance_pred)
TextOf(opt) == IF opt = <<>> THEN "" ELSE Lower(opt[1])

KnownSubstances == {"water", "oil", "chemical"}

\* water 20, oil 40, chemical 70, anything else 30
SubstanceBase(substance) ==
    CASE substance = "water" -> 20
      [] substance = "oil" -> 40
      [] substance = "chemical" -> 70
      [] OTHER -> 30

\* <= 0.15 gives 0.6, <= 0.35 gives 1.0, above gives 1.3 (tenths); an absent
\* area_ratio counts as 0.0
AreaStep(det) ==
    LET a == IF det.area_ratio = <<>> THEN 0 ELSE det.area_ratio[1]
    IN  CASE a <= 15 -> 6
          [] a > 15 /\ a <= 35 -> 10
          [] OTHER -> 13

\* far 0.7, near_machine 1.0, critical_machine 1.2, anything else 1.0
ProximityFactor(ctx) ==
    CASE TextOf(ctx.proximity_to_machines) = "far" -> 7
      [] TextOf(ctx.proximity_to_machines) = "critical_machine" -> 12
      [] OTHER -> 10

\* production 1.0, electrical_room 0.8, storage 0.7, anything else 0.5
ZoneMultiplier(ctx) ==
    CASE TextOf(ctx.zone_type) = "production" -> 10
      [] TextOf(ctx.zone_type) = "electrical_room" -> 8
      [] TextOf(ctx.zone_type) = "storage" -> 7
      [] OTHER -> 5

\* min(production_value_per_hour / 500, 100), in 1/ScoreUnit; an absent
\* production value counts as 0
ProductionBase(ctx) ==
    LET prod_value == IF ctx.production_value_per_hour = <<>> THEN 0
                      ELSE ctx.production_value_per_hour[1]
        base == prod_value * (ScoreUnit \div 500)
    IN  IF base > 100 * ScoreUnit THEN 100 * ScoreUnit ELSE base

\* the electrical base of a substance in a zone at a proximity
ElectricalBase(det, ctx) ==
    LET substance == SubstanceOf(det)
        zone == TextOf(ctx.zone_type)
        near == TextOf(ctx.proximity_to_machines)
                    \in {"near_machine", "critical_machine"}
    IN  CASE zone = "electrical_room" /\ substance = "chemical" -> 80
          [] zone = "electrical_room" /\ substance = "water" -> 60
          [] zone = "electrical_room" /\ substance = "oil" -> 40
          [] zone \in {"production", "storage"} /\ near /\ substance = "chemical" -> 50
          [] zone \in {"production", "storage"} /\ near /\ substance = "oil" -> 40
          [] zone \in {"production", "storage"} /\ near /\ substance = "water" -> 25
          [] OTHER -> 0

\* clamp to [0, 100], in 1/ScoreUnit
Clamp(score) ==
    IF score < 0 THEN 0
    ELSE IF score > 100 * ScoreUnit THEN 100 * ScoreUnit
    ELSE score

\* the reported values and contributions, in order
ReportedValues == [i \in 1..5 |-> ret.factors[i].value]
ReportedContributions == [i \in 1..5 |-> ret.factors[i].contribution]

\* the example payload of adapter_example.py
ExampleRequest ==
    Request("img_001", <<Detection("oil", 93000, <<30>>)>>,
            Context(<<"production">>, <<"near_machine">>, <<"non_absorbent">>,
                    <<8000>>))

\* C12 as stated: the example payload reports the values 44, 40, 40, 16, 93,
\* the contributions 15.4, 8, 8, 2.4, 9.3, the global score 43.1 and the
\* level MEDIUM.
C12_ExamplePayloadScores ==
    (Returned /\ args = ExampleRequest) =>
        /\ ReportedValues = <<4400, 4000, 4000, 1600, 9300>>
        /\ ReportedContributions = <<15400, 8000, 8000, 2400, 9300>>
        /\ ret.global_severity_score = 4310
        /\ ret.global_severity_level = "MEDIUM"

\* the unrounded cost the claims give for a damage factor (tenths), as a
\* wide natural in 1e-8 euro:
\* production value x min(4 x area_ratio, 4) x damage factor x (0.5 + global / 100)
ExpectedCost(det, ctx, dmg_factor) ==
    LET prod_value == IF ctx.production_value_per_hour = <<>> THEN 0
                      ELSE ctx.production_value_per_hour[1]
        area == IF det.area_ratio = <<>> THEN 0 ELSE det.area_ratio[1]
        hours == IF 4 * area > 400 THEN 400 ELSE 4 * area
        base_loss == prod_value * hours * dmg_factor
    IN  IF base_loss > 0
        THEN BigMul(BigFromInt(base_loss), BigFromInt(50000 + locals.global_score))
        ELSE <<0>>

\* C13: a request whose area_ratio, zone_type, proximity_to_machines,
\* floor_type or production_value_per_hour is absent or unrecognized gets a
\* full result, computed with area factor 0.6, floor factor 1.1, proximity
\* factor 1.0, zone multiplier 0.5, production value 0 and electrical base 0
\* in place of the missing field.
C13_AbsentFieldsUseDefaults ==
    Scored =>
        LET det == ScoredDet
            ctx == args.context
            base == SubstanceBase(SubstanceOf(det))
            af == IF det.area_ratio = <<>> THEN 6 ELSE AreaStep(det)
            floor == TextOf(ctx.floor_type)
            zone == TextOf(ctx.zone_type)
            near == TextOf(ctx.proximity_to_machines)
            no_floor == ctx.floor_type = <<>> \/ ~Contains("absorbent", floor)
            no_zone == zone \notin {"production", "electrical_room", "storage"}
            no_near == near \notin {"far", "near_machine", "critical_machine"}
            no_prod == ctx.production_value_per_hour = <<>>
            unit == ScoreUnit \div 100
        IN  /\ DOMAIN ret = DOMAIN EmptyResult("")
            /\ Len(ret.factors) = 5
            /\ ret.global_severity_level \in {"LOW", "MEDIUM", "HIGH", "CRITICAL"}
            /\ no_floor => locals.physical = Clamp(base * af * 11 * unit)
            /\ no_near => locals.human = Clamp(base * af * 10 * unit)
            /\ no_zone => /\ locals.electrical = 0
                          /\ locals.business
                               = Clamp((ProductionBase(ctx) \div 100) * af * 5)
            /\ (no_near /\ zone # "electrical_room") => locals.electrical = 0
            /\ no_prod => locals.business = 0 /\ ret.estimated_cost = 0
            /\ det.area_ratio = <<>> =>
                  /\ ret.estimated_cost = 0
                  /\ locals.electrical = Clamp(ElectricalBase(det, ctx) * 6 * 10 * unit)
                  /\ locals.human = Clamp(base * 6 * ProximityFactor(ctx) * unit)

\* a chemical detection with no area in a context with nothing set
C13_Witness ==
    /\ Scored
    /\ ScoredDet.substance_pred = "chemical"
    /\ ScoredDet.area_ratio = <<>>
    /\ args.context.zone_type = <<>>
    /\ args.context.proximity_to_machines = <<>>
    /\ args.context.floor_type = <<>>
    /\ args.context.production_value_per_hour = <<>>
    /\ locals.physical = 4620000
    /\ locals.human = 4200000
    /\ locals.electrical = 0
    /\ locals.business = 0

\* the three substance-specific instructions
SubstanceInstructions ==
    {"Nettoyage urgent avec kit absorbant adapté à l'huile.",
     "Sécher / nettoyer la zone pour éviter les chutes.",
     "Déclencher la procédure de déversement chimique (EPI, SDS, ventilation)."}

\* C14: a substance other than water, oil and chemical is scored with
\* physical base 30, human-safety base 30, damage factor 0.8 and electrical
\* base 0 in every zone, and gets no substance-specific recommendation.
C14_UnknownSubstance ==
    (Scored /\ SubstanceOf(ScoredDet) \notin KnownSubstances) =>
        LET det == ScoredDet
            ctx == args.context
            af == AreaStep(det)
            ff == IF Contains("absorbent", TextOf(ctx.floor_type)) THEN 8 ELSE 11
            unit == ScoreUnit \div 100
        IN  /\ locals.physical = Clamp(30 * af * ff * unit)
            /\ locals.human = Clamp(30 * af * ProximityFactor(ctx) * unit)
            /\ locals.electrical = 0
            /\ ret.estimated_cost
                   \in BigRoundChoices(ExpectedCost(det, ctx, 8), <<LimbBase, 100>>)
            /\ \A i \in DOMAIN ret.recommendations :
                  ret.recommendations[i] \notin SubstanceInstructions

\* sand in an electrical room, next to a critical machine, with a cost
C14_Witness ==
    /\ Scored
    /\ ScoredDet.substance_pred = "sand"
    /\ args.context.zone_type = <<"electrical_room">>
    /\ args.context.proximity_to_machines = <<"critical_machine">>
    /\ locals.electrical = 0
    /\ ret.estimated_cost > 0
    /\ Len(ret.recommendations) = 3

\* C17 as stated: floor_type non_absorbent gives floor factor 1.1 and
\* absorbent gives 0.8, so that, unless clamped, the physical score with
\* non_absorbent is strictly greater than with absorbent.
C17_NonAbsorbentRaisesPhysical ==
    (Scored /\ args.context.floor_type = <<"non_absorbent">>) =>
        LET det == ScoredDet
            raw == SubstanceBase(SubstanceOf(det)) * AreaStep(det)
                       * (ScoreUnit \div 100)
            with_absorbent ==
                _physical_score(det, [args.context EXCEPT
                                          !.floor_type = <<"absorbent">>])
        IN  /\ locals.physical = Clamp(raw * 11)
            /\ with_absorbent = Clamp(raw * 8)
            /\ raw * 11 <= 100 * ScoreUnit => locals.physical > with_absorbent

\* the instructions a recommendation list is made of
IsolateInstruction == "Isoler la zone et baliser l'accès (cones, rubalise)."
PowerCutoffInstruction ==
    "Couper l'alimentation électrique de la zone si possible et sécurisé."
EscalateInstruction ==
    "Informer immédiatement le responsable HSE / sécurité du site."
RootCauseInstruction ==
    "Documenter l'incident dans le registre HSE et analyser les causes racines."
LogInstruction == "Documenter l'incident dans le registre HSE."

\* the substance-specific instruction, if any
SubstanceInstruction(det) ==
    CASE SubstanceOf(det) = "oil" ->
            <<"Nettoyage urgent avec kit absorbant adapté à l'huile.">>
      [] SubstanceOf(det) = "water" ->
            <<"Sécher / nettoyer la zone pour éviter les chutes.">>
      [] SubstanceOf(det) = "chemical" ->
            <<"Déclencher la procédure de déversement chimique (EPI, SDS, ventilation).">>
      [] OTHER -> <<>>

\* the isolation, substance and power-cutoff instructions, in order
LeadingInstructions ==
    <<IsolateInstruction>>
    \o SubstanceInstruction(ScoredDet)
    \o (IF TextOf(args.context.zone_type) = "electrical_room"
        THEN <<PowerCutoffInstruction>> ELSE <<>>)

Escalated == ret.global_severity_level \in {"HIGH", "CRITICAL"}

\* C15 as stated: the list is the isolation instruction, the substance
\* instruction if any, the power cutoff iff the zone is electrical_room, then
\* the escalation instruction if the level is HIGH or CRITICAL and the
\* logging instruction otherwise, and nothing else.
C15_OneInstructionPerLevel ==
    Scored =>
        ret.recommendations
            = LeadingInstructions
              \o (IF Escalated THEN <<EscalateInstruction>>
                  ELSE <<LogInstruction>>)

\* C15 amended: as stated, except that a HIGH or CRITICAL level appends two
\* instructions, the escalation to the HSE responsible followed by the
\* instruction to document the incident and analyse its root causes.
C15_RecommendationOrder ==
    Scored =>
        ret.recommendations
            = LeadingInstructions
              \o (IF Escalated THEN <<EscalateInstruction, RootCauseInstruction>>
                  ELSE <<LogInstruction>>)

\* a chemical spill in an electrical room at level CRITICAL: five instructions
C15_Witness ==
    /\ Scored
    /\ ScoredDet.substance_pred = "chemical"
    /\ args.context.zone_type = <<"electrical_room">>
    /\ ret.global_severity_level = "CRITICAL"
    /\ Len(ret.recommendations) = 5
    /\ ret.recommendations[3] = PowerCutoffInstruction
    /\ ret.recommendations[5] = RootCauseInstruction

\* C18: _electrical_score is min(base x area_factor, 100) with base 80, 60,
\* 40 for chemical, water, oil in an electrical room whatever the proximity,
\* 50, 40, 25 for chemical, oil, water in production or storage near a
\* machine or a critical machine, and 0 everywhere else.
C18_ElectricalScore ==
    Scored =>
        locals.electrical
            = Clamp(ElectricalBase(ScoredDet, args.context) * AreaStep(ScoredDet)
                    * (ScoreUnit \div 10))

\* electrical_room + chemical + area_ratio 0.5 gives 104, clamped to 100
C18_Witness ==
    /\ Scored
    /\ ScoredDet.substance_pred = "chemical"
    /\ ScoredDet.area_ratio = <<50>>
    /\ args.context.zone_type = <<"electrical_room">>
    /\ args.context.proximity_to_machines = <<"critical_machine">>
    /\ 80 * 13 * (ScoreUnit \div 10) > 100 * ScoreUnit
    /\ locals.electrical = 100 * ScoreUnit
    /\ ret.factors[2].value = 100 * 100

\* C19: _area_factor is 0.6 up to 0.15, 1.0 up to 0.35 and 1.3 above, the
\* boundaries belonging to the lower step; it never decreases when the
\* area_ratio grows; the physical, electrical, human-safety and business
\* sub-scores of one call all use the factor of the call's area_ratio.
C19_AreaFactorSteps ==
    /\ fn = "_area_factor" =>
          /\ args.area_ratio <= 15 => ret = 6
          /\ (15 < args.area_ratio /\ args.area_ratio <= 35) => ret = 10
          /\ args.area_ratio > 35 => ret = 13
          /\ \A smaller \in AreaValues :
                smaller <= args.area_ratio => _area_factor(smaller) <= ret
    /\ Scored =>
          LET det == ScoredDet
              ctx == args.context
              af == AreaStep(det)
              ff == IF Contains("absorbent", TextOf(ctx.floor_type)) THEN 8 ELSE 11
              base == SubstanceBase(SubstanceOf(det))
              unit == ScoreUnit \div 100
          IN  /\ locals.physical = Clamp(base * af * ff * unit)
              /\ locals.electrical = Clamp(ElectricalBase(det, ctx) * af * 10 * unit)
              /\ locals.human = Clamp(base * af * ProximityFactor(ctx) * unit)
              /\ locals.business
                     = Clamp((ProductionBase(ctx) \div 100) * af * ZoneMultiplier(ctx))

\* the boundary 0.35 belongs to the middle step
C19_Witness ==
    /\ fn = "_area_factor"
    /\ args.area_ratio = 35
    /\ ret = 10

\* the physical score of the scored detection, had it another substance
PhysicalOf(substance) ==
    _physical_score([ScoredDet EXCEPT !.substance_pred = substance], args.context)

----------------------------------------------------------------------------
(* The dashboard callbacks when the call to the service fails *)

\* the HTTP call failed: the transport raised, or the status is not 2xx
HttpFailed(resp) ==
    resp.raised # "" \/ ~(resp.status_code \in 200..299)

IsErrorMessage(text) ==
    /\ text # ""
    /\ Len(text) >= Len("Erreur : ")
    /\ SubSeq(text, 1, Len("Erreur : ")) = "Erreur : "

RunFailed ==
    fn = "run_risk_analysis" /\ args.n_clicks > 0 /\ HttpFailed(locals.resp)

SimulateFailed ==
    fn = "simulate_detection" /\ args.n_clicks > 0 /\ HttpFailed(locals.resp)

\* C16: when the HTTP call to the risk service fails (network error,
\* timeout or non-2xx status), run_risk_analysis and simulate_detection
\* each issue exactly one request, to the service URL, and return an error
\* message that starts with 'Erreur : '; run_risk_analysis returns the
\* history store it received, so the store keeps its entries.
C16_FailedCallReported ==
    /\ RunFailed =>
          /\ Len(calls) = 1
          /\ calls[1].url = RISK_SERVICE_URL
          /\ IsErrorMessage(ret.error_message)
          /\ ret.history_store = args.history_data
          /\ history_store = args.history_data
    /\ SimulateFailed =>
          /\ Len(calls) = 1
          /\ calls[1].url = RISK_SERVICE_URL
          /\ IsErrorMessage(ret.detection_error)

\* a failed analysis after a successful one: the history has an entry to keep
C16_Witness ==
    /\ RunFailed
    /\ locals.resp.raised = "ReadTimeout"
    /\ Len(args.history_data) = 1
    /\ ret.history_store = args.history_data

----------------------------------------------------------------------------
(* Calls of the engine by several callers *)

Answered(c) == fn[c] = "build_risk_result"

----------------------------------------------------------------------------
(* The human, business and cost formulas *)

\* C21: _human_safety_score is clamp(base x area_factor x proximity_factor,
\* 0, 100) with base water 20, oil 40, chemical 70, anything else 30, and
\* proximity factor far 0.7, near_machine 1.0, critical_machine 1.2,
\* anything else, absent included, 1.0.
C21_HumanSafetyScore ==
    Scored =>
        /\ locals.human
              = Clamp(SubstanceBase(SubstanceOf(ScoredDet)) * AreaStep(ScoredDet)
                      * ProximityFactor(args.context) * (ScoreUnit \div 100))
        /\ args.context.proximity_to_machines = <<>> =>
              locals.human
                 = Clamp(SubstanceBase(SubstanceOf(ScoredDet)) * AreaStep(ScoredDet)
                         * 10 * (ScoreUnit \div 100))

\* water far from the machines: 20 x 1.0 x 0.7 = 14
C21_Witness ==
    /\ Scored
    /\ ScoredDet.substance_pred = "water"
    /\ ScoredDet.area_ratio = <<30>>
    /\ args.context.proximity_to_machines = <<"far">>
    /\ locals.human = 14 * ScoreUnit

ProdValueOf(ctx) ==
    IF ctx.production_value_per_hour = <<>> THEN 0
    ELSE ctx.production_value_per_hour[1]

\* C22: _business_score is clamp(min(production_value_per_hour / 500, 100)
\* x area_factor x zone_multiplier, 0, 100) with zone multiplier production
\* 1.0, electrical_room 0.8, storage 0.7, anything else 0.5; an absent
\* production value counts as 0 and a negative one gives the score 0.
C22_BusinessScore ==
    Scored =>
        /\ locals.business
              = Clamp((ProductionBase(args.context) \div 100) * AreaStep(ScoredDet)
                      * ZoneMultiplier(args.context))
        /\ ProdValueOf(args.context) <= 0 => locals.business = 0

\* a production value above the cap, in a storage zone:
\* min(120, 100) x 1.0 x 0.7 = 70
C22_Witness ==
    /\ Scored
    /\ args.context.production_value_per_hour = <<60000>>
    /\ args.context.zone_type = <<"storage">>
    /\ ScoredDet.area_ratio = <<30>>
    /\ locals.business = 70 * ScoreUnit

\* water 0.6, oil 1.0, chemical 2.0, anything else 0.8 (tenths)
DamageFactor(substance) ==
    CASE substance = "water" -> 6
      [] substance = "oil" -> 10
      [] substance = "chemical" -> 20
      [] OTHER -> 8

\* the reported cost (cents) follows the formula, the severity multiplier
\* 0.5 + global_score / 100 is within [0.5, 1.5], the cost is not negative
\* and is 0 when area_ratio or the production value is absent or 0
CostFormula ==
    LET det == ScoredDet
        ctx == args.context
    IN  /\ ret.estimated_cost
              \in BigRoundChoices(ExpectedCost(det, ctx,
                                               DamageFactor(SubstanceOf(det))),
                                  <<LimbBase, 100>>)
        /\ 50000 + locals.global_score \in 50000..150000
        /\ ret.estimated_cost >= 0
        /\ (det.area_ratio \in {<<>>, <<0>>}
              \/ ctx.production_value_per_hour \in {<<>>, <<0>>})
           => ret.estimated_cost = 0

\* C23 as stated: the cost follows the formula and never exceeds
\* 12 x production_value_per_hour.
C23_CostAtMostTwelveTimesProduction ==
    Scored =>
        /\ CostFormula
        /\ ret.estimated_cost <= 12 * 100 * ProdValueOf(args.context)

\* C23: _estimate_cost is max(0, production_value_per_hour
\* x min(4 x area_ratio, 4) x damage_factor x (0.5 + global_score / 100))
\* with damage factor water 0.6, oil 1.0, chemical 2.0, anything else 0.8;
\* the severity multiplier is within [0.5, 1.5], the cost is never negative
\* and is 0 when area_ratio or the production value is absent or 0; when the
\* production value is not negative, the cost never exceeds 12 times it.
C23_EstimateCost ==
    Scored =>
        /\ CostFormula
        /\ ProdValueOf(args.context) >= 0 =>
              ret.estimated_cost <= 12 * 100 * ProdValueOf(args.context)

\* every factor at its maximum: 60000 x 4 x 0.5 x 2.0 x 1.5 = 360000
C23_Witness ==
    /\ Scored
    /\ ScoredDet.substance_pred = "chemical"
    /\ ScoredDet.area_ratio = <<50>>
    /\ args.context.production_value_per_hour = <<60000>>
    /\ locals.global_score = 100 * 1000
    /\ ret.estimated_cost = 360000 * 100

----------------------------------------------------------------------------
(* Mitigation *)

\* 0.35*0.5*physical + 0.20*0.5*electrical + 0.20*0.6*human
\* + 0.15*0.7*business + 0.10*model_conf, in 1/MitUnit: the weights in
\* twentieths (7, 4, 4, 3, 2), the coefficients in tenths
MitigatedSum ==
    7 * 5 * locals.physical + 4 * 5 * locals.electrical
    + 4 * 6 * locals.human + 3 * 7 * locals.business
    + 2 * 10 * locals.model_conf

\* the mitigated score is the weighted sum with the five coefficients, and
\* the reported one is its rounding to 2 decimals
MitigatedIsWeightedSum ==
    /\ locals.mitigated_score = MitigatedSum
    /\ ret.mitigated_severity_score
          \in RoundChoices(MitigatedSum, MitUnit \div 100)

\* the model-confidence term of the mitigated sum, and the contribution
\* reported for model_confidence before mitigation, both in 1/MitUnit
ConfTermAfter == 2 * 10 * locals.model_conf
ConfContributionBefore == ret.factors[5].contribution * (MitUnit \div 1000)

\* C24 as stated: the mitigated score is the weighted sum of the sub-scores
\* under the coefficients 0.5, 0.5, 0.6, 0.7, 1.0, and the model-confidence
\* contribution is identical before and after mitigation.
C24_ConfidenceContributionIdentical ==
    Scored =>
        /\ MitigatedIsWeightedSum
        /\ ConfContributionBefore = ConfTermAfter

\* C24: the mitigated score is 0.35*0.5*physical + 0.20*0.5*electrical
\* + 0.20*0.6*human + 0.15*0.7*business + 0.10*model_conf on the unrounded
\* sub-scores, with the weights of the pre-mitigation score; its
\* model-confidence term is the pre-mitigation model-confidence contribution
\* before that one is rounded to 3 decimals, so the two differ by at most
\* 0.0005.
C24_MitigatedScore ==
    Scored =>
        /\ MitigatedIsWeightedSum
        /\ Abs(ConfContributionBefore - ConfTermAfter) <= MitUnit \div 2000

\* every sub-score at 100: 17.5 + 10 + 12 + 10.5 + 10 = 60
C24_Witness ==
    /\ Scored
    /\ \A i \in 1..5 : SubScores[i] = 100 * ScoreUnit
    /\ locals.mitigated_score = 60 * MitUnit
    /\ ret.mitigated_severity_score = 60 * 100

----------------------------------------------------------------------------
(* Bounds that hold of every scored result *)

\* C25: for a non-empty detection list the physical sub-score is at least
\* 9.6 and the human-safety sub-score at least 8.4, so the global score is
\* at least 5.04: a global score of 0 only comes with an empty detection
\* list, and the normal path never computes mitigated_cost or
\* risk_reduction_pct with global_score = 0.
C25_GlobalScorePositive ==
    Returned =>
        /\ Scored =>
              /\ 10 * locals.physical >= 96 * ScoreUnit
              /\ 10 * locals.human >= 84 * ScoreUnit
              /\ locals.global_score >= 5040
              /\ ret.global_severity_score >= 504
        /\ ret.global_severity_score = 0 => args.detections = <<>>

\* the lowest score: water on the smallest area, on an absorbent floor, far
\* from the machines, with confidence 0
C25_Witness ==
    /\ Scored
    /\ 10 * locals.physical = 96 * ScoreUnit
    /\ 10 * locals.human = 84 * ScoreUnit
    /\ locals.global_score = 5040
    /\ ret.global_severity_score = 504

\* C26: for a non-empty detection list the mitigated score is strictly less
\* than the global score, unrounded and as reported, the mitigated level is
\* not a higher tier than the global level, and mitigated_cost is not
\* greater than estimated_cost.
C26_MitigationNeverWorse ==
    Scored =>
        /\ locals.mitigated_score < locals.global_score * (MitUnit \div 1000)
        /\ ret.mitigated_severity_score < ret.global_severity_score
        /\ LevelRank(ret.mitigated_severity_level)
              <= LevelRank(ret.global_severity_level)
        /\ ret.mitigated_cost <= ret.estimated_cost

\* mitigation takes a HIGH incident with a cost down to MEDIUM
C26_Witness ==
    /\ Scored
    /\ ret.global_severity_level = "HIGH"
    /\ ret.mitigated_severity_level = "MEDIUM"
    /\ ret.estimated_cost > 0
    /\ ret.mitigated_cost > 0
    /\ ret.mitigated_cost < ret.estimated_cost

\* requests whose pre-mitigation levels are LOW, MEDIUM, HIGH and CRITICAL
LevelExamples ==
    {Request("img_001", <<Detection("water", 0, <<0>>)>>,
             Context(<<"corridor">>, <<"far">>, <<"absorbent">>, <<0>>)),
     ExampleRequest,
     Request("img_001", <<Detection("chemical", 100000, <<50>>)>>,
             Context(<<"production">>, <<"near_machine">>, <<"non_absorbent">>,
                     <<8000>>)),
     Request("img_001", <<Detection("chemical", 100000, <<50>>)>>,
             Context(<<"electrical_room">>, <<"critical_machine">>, <<"concrete">>,
                     <<60000>>))}

\* C27: the mitigated score never exceeds 60, its value when every sub-score
\* is 100, so mitigated_severity_level is never CRITICAL, while the
\* pre-mitigation level is one of LOW, MEDIUM, HIGH and CRITICAL.
C27_MitigatedNeverCritical ==
    Returned =>
        /\ Scored => locals.mitigated_score <= 60 * MitUnit
        /\ ret.mitigated_severity_score <= 60 * 100
        /\ ret.mitigated_severity_level \in {"LOW", "MEDIUM", "HIGH"}
        /\ \E i \in 1..4 : ret.global_severity_level = Levels[i]

\* a CRITICAL incident whose mitigated score is 60, and each of the four
\* levels is the pre-mitigation level of some request
C27_Witness ==
    /\ Scored
    /\ ret.global_severity_level = "CRITICAL"
    /\ locals.mitigated_score = 60 * MitUnit
    /\ ret.mitigated_severity_level = "HIGH"
    /\ LevelExamples \subseteq Requests
    /\ \A i \in 1..4 :
          \E req \in LevelExamples :
             \A out \in build_risk_result(req.image_id, req.detections, req.context) :
                out.ret.global_severity_level = Levels[i]

\* C28: for a non-empty detection list the reduction is strictly between 0
\* and 50 percent, unrounded (mitigated < global < 2 x mitigated) and as
\* reported in risk_reduction_pct.
C28_ReductionBelowHalf ==
    Scored =>
        LET global == locals.global_score * (MitUnit \div 1000)
        IN  /\ locals.mitigated_score < global
            /\ global - locals.mitigated_score < locals.mitigated_score
            /\ ret.risk_reduction_pct > 0
            /\ ret.risk_reduction_pct < 50 * 10

\* a reduction above 45 percent: the physical and electrical scores, which
\* are halved, carry the global score
C28_Witness ==
    /\ Scored
    /\ ret.risk_reduction_pct > 45 * 10
    /\ locals.electrical > 0

----------------------------------------------------------------------------
(* The history of the dashboard *)

\* the entry run_risk_analysis records for a response
EntryOf(resp, index) ==
    [index |-> index, score |-> resp.body[1].global_severity_score,
     mitigated_score |-> resp.body[1].mitigated_severity_score]

\* C29: a run_risk_analysis call with n_clicks > 0 is handed the history
\* store as it stands; when the analysis succeeds it returns that history
\* with one entry appended, whose index is the previous length + 1 and whose
\* score and mitigated_score are those of the response; when it fails it
\* returns the history as received.  From the empty store on, the indexes of
\* the store are therefore 1, 2, ..., n in call order, one per successful
\* analysis.
C29_HistoryAccumulates ==
    [][(fn = "idle" /\ fn' = "run_risk_analysis") =>
          /\ args'.n_clicks > 0
          /\ args'.history_data = history_store
          /\ ret'.history_store = history_store'
          /\ IF Raised(locals'.resp) = <<>>
                THEN /\ Len(history_store') = Len(history_store) + 1
                     /\ SubSeq(history_store', 1, Len(history_store)) = history_store
                     /\ history_store'[Len(history_store')]
                           = EntryOf(locals'.resp, Len(history_store) + 1)
             ELSE history_store' = history_store
          /\ \A i \in 1..Len(history_store') : history_store'[i].index = i
          /\ Len(history_store') <= btn_run']_vars

\* two successful analyses in a row
C29_Witness ==
    /\ fn = "run_risk_analysis"
    /\ ret.error_message = ""
    /\ Len(history_store) = 2
    /\ history_store[1].index = 1
    /\ history_store[2].index = 2
    /\ history_store[2] = EntryOf(locals.resp, 2)

\* C30: whenever run_risk_analysis runs with n_clicks 0, as it does when the
\* RiskOps tab layout is rendered anew with a fresh btn-run, it returns an
\* empty history store and the empty history figure without calling the
\* service, whatever history it was handed: the store is emptied.  Showing
\* the detection tab leaves the store as it is.
C30_RenderDiscardsHistory ==
    fn = "render_tabs" =>
        IF args.tab = "tab-riskops"
            THEN /\ ret.children = "riskops_tab_layout"
                 /\ locals.n_clicks = 0
                 /\ ret.outputs.history_store = <<>>
                 /\ ret.outputs.history_graph = empty_history_figure
                 /\ ret.outputs.error_message = ""
                 /\ calls = <<>>
                 /\ history_store = <<>>
                 /\ btn_run = 0
        ELSE history_store = locals.history_data

\* the RiskOps tab is shown again while the store holds an entry
C30_Witness ==
    /\ fn = "render_tabs"
    /\ args.tab = "tab-riskops"
    /\ Len(locals.history_data) >= 1
    /\ history_store = <<>>

====
